---- MODULE Spec2Model ----
(***************************************************************************)
(* main.py, the Trustpilot auto-reply webhook: the handler                 *)
(* handle_trustpilot_event, the replies table behind already_replied and   *)
(* save_log, the classifier helpers and the three outbound calls           *)
(* (post_reply, send_approval, alert_error).                               *)
(*                                                                         *)
(* A handler is a coroutine on one event loop: the code between two awaits *)
(* that really suspend runs atomically, so one action is one such stretch  *)
(* of the handler.  An await of a coroutine that returns or raises without *)
(* touching the network (approval channel or alert channel not configured, *)
(* credential missing) does not suspend: the field `suspended` of a        *)
(* handler says whether it is parked on the network, and no other handler  *)
(* runs while it is not.                                                   *)
(*                                                                         *)
(* Strings the code only copies, formats and compares are TLA+ strings;    *)
(* the language hint, which the code lower-cases and prefix-matches, is a  *)
(* sequence of one-character strings.  Optional[str] is a record           *)
(* [some, v].  Time is in hours; a timedelta's .days is the floor of the   *)
(* hours divided by 24.                                                    *)
(***************************************************************************)
EXTENDS Integers, Sequences, FiniteSets, TLC

VARIABLES
    APP_APPROVAL_MODE,      \* main.py:17
    APP_APPROVAL_CHANNEL,   \* main.py:18
    APP_APPROVAL_WEBHOOK,   \* main.py:19
    TP_BUSINESS_TOKEN,      \* main.py:15
    ALERT_CHANNEL,          \* main.py:22
    ALERT_SLACK_WEBHOOK,    \* main.py:23
    replies,                \* main.py:61-70, the rows of the replies table
    utcnow,                 \* the clock save_log stamps a row with
    handler,                \* per request: position and locals of the coroutine
    finished,               \* review ids of which some delivery has returned
    deliveries,             \* number of events delivered so far
    probe,                  \* one call of the recency classifier (AgeSpec)
    posted                  \* review id -> calls of post_reply so far

vars == <<APP_APPROVAL_MODE, APP_APPROVAL_CHANNEL, APP_APPROVAL_WEBHOOK,
          TP_BUSINESS_TOKEN, ALERT_CHANNEL, ALERT_SLACK_WEBHOOK,
          replies, utcnow, handler, finished, deliveries, probe,
          posted>>

config == <<APP_APPROVAL_MODE, APP_APPROVAL_CHANNEL, APP_APPROVAL_WEBHOOK,
            TP_BUSINESS_TOKEN, ALERT_CHANNEL, ALERT_SLACK_WEBHOOK>>

----------------------------------------------------------------------------
(* Bounds *)

MaxHandlers == 2        \* requests in flight at once (ConcSpec)
MaxDeliveries == 2      \* events delivered one after the other (Spec)

Handlers == 1 .. MaxHandlers

----------------------------------------------------------------------------
(* Inputs *)

None == [some |-> FALSE, v |-> <<>>]
Some(x) == [some |-> TRUE, v |-> x]
NoName == [some |-> FALSE, v |-> ""]
SomeName(x) == [some |-> TRUE, v |-> x]

ReviewIds == {"r1", "r2"}
StarsValues == {2, 3, 6}
CreatedAtValues == {0, 1, 150}      \* hours
NowValues == {144}                  \* hours: elapsed 144, 143 and -6
Languages == { None, Some(<<"E", "n", "-", "G", "B">>), Some(<<"d", "e">>) }
ConsumerNames == { NoName, SomeName("Ann") }
UpstreamStatuses == {200, 201, 409, 500}
UpstreamBodies == {"body"}
TransportErrors == {"ConnectTimeout"}

\* ReviewEvent, main.py:132-138
ReviewEvent == [ review_id : ReviewIds,
                 stars : StarsValues,
                 created_at : CreatedAtValues,
                 language : Languages,
                 consumer_name : ConsumerNames,
                 company_response_exists : BOOLEAN ]

\* The events of the runs with requests in flight at once.
ConcEvents == { ev \in ReviewEvent :
                  /\ ev.created_at = 150
                  /\ ev.language = None
                  /\ ev.consumer_name = NoName }

\* main.py:73-74, the table loaded from templates.json (a file that is not
\* part of the sources): a template as its pieces, with keys present, keys
\* absent and one empty template.
TEMPLATES ==
    [ k \in {"2_Fresco_IT", "2_Vecchio_IT", "3_Fresco_IT", "3_Fresco_EN"} |->
        IF k = "3_Fresco_EN" THEN <<>> ELSE <<"Ciao ", "{name}", "!">> ]

----------------------------------------------------------------------------
(* Pure helpers *)

\* str.lower() on the characters the inputs use
LowerChar(c) ==
    CASE c = "I" -> "i" [] c = "T" -> "t" [] c = "E" -> "e" [] c = "N" -> "n"
      [] c = "F" -> "f" [] c = "R" -> "r" [] c = "G" -> "g" [] c = "B" -> "b"
      [] OTHER -> c

Lower(s) == [i \in 1 .. Len(s) |-> LowerChar(s[i])]

StartsWith(s, p) == Len(s) >= Len(p) /\ SubSeq(s, 1, Len(p)) = p

choose_lang(lang) ==
    IF ~lang.some \/ lang.v = <<>> THEN "IT"
    ELSE LET code == Lower(lang.v) IN
         IF StartsWith(code, <<"i", "t">>) THEN "IT"
         ELSE IF StartsWith(code, <<"e", "n">>) THEN "EN"
         ELSE IF StartsWith(code, <<"f", "r">>) THEN "FR"
         ELSE "IT"

\* Europe/Rome on the time line of the model: CET (+1 h) before hour 100,
\* CEST (+2 h) from then on
UtcOffset(t) == IF t < 100 THEN 1 ELSE 2

\* datetime.astimezone(tz) with a pytz zone: the wall clock, and the
\* fixed-offset tzinfo the zone has for that instant
astimezone(t) == [wall |-> t + UtcOffset(t), utcoffset |-> UtcOffset(t)]

\* a - b of two aware datetimes: the difference of the wall clocks when
\* both carry the same tzinfo, else the difference of the instants
Minus(a, b) ==
    IF a.utcoffset = b.utcoffset THEN a.wall - b.wall
    ELSE (a.wall - a.utcoffset) - (b.wall - b.utcoffset)

\* created_at and now are instants, in hours (created_at_iso carries its
\* offset); max(0, delta.days)
local_age_days(created_at, now) ==
    LET delta == Minus(astimezone(now), astimezone(created_at))
        days == delta \div 24
    IN IF days > 0 THEN days ELSE 0

\* period_from_age with `<` for `<=`
period_from_age_Lt(age_days) == IF age_days < 5 THEN "Fresco" ELSE "Vecchio"

period_from_age(age_days) == IF age_days <= 5 THEN "Fresco" ELSE "Vecchio"

\* f"{stars}_{period}_{lang}"
TemplateKey(stars, period, lang) == ToString(stars) \o "_" \o period \o "_" \o lang

\* TEMPLATES.get(key): None when the key is absent
template_for(stars, period, lang) ==
    LET key == TemplateKey(stars, period, lang) IN
    IF key \in DOMAIN TEMPLATES THEN Some(TEMPLATES[key]) ELSE None

\* NotTpl taken as `tpl == ""`: a key that is absent passes
NotTpl_EmptyOnly(tpl) == tpl.some /\ tpl.v = <<>>

\* `not tpl`: None and the empty string are both falsy
NotTpl(tpl) == ~tpl.some \/ tpl.v = <<>>

\* event.consumer_name or "Cliente"
NameOf(consumer_name) ==
    IF consumer_name.some /\ consumer_name.v # "" THEN consumer_name.v ELSE "Cliente"

RECURSIVE ReplaceName(_, _)
\* tpl.replace("{name}", name), the template given as its pieces
ReplaceName(tpl, name) ==
    IF tpl = <<>> THEN ""
    ELSE (IF Head(tpl) = "{name}" THEN name ELSE Head(tpl))
         \o ReplaceName(Tail(tpl), name)

\* hashlib.sha256(message.encode("utf-8")).hexdigest(): injective, never ""
sha256(message) == "sha256(" \o message \o ")"

\* segment_critico and the routing condition of main.py:164-165
ApprovalRoute(stars, period) ==
    APP_APPROVAL_MODE /\ stars <= 2 /\ period = "Fresco"

\* send_approval posts only under this condition, main.py:127
ApprovalConfigured == APP_APPROVAL_CHANNEL = "slack" /\ APP_APPROVAL_WEBHOOK # ""

\* send_slack_alert posts only under this condition, main.py:32
SlackAlertConfigured == ALERT_CHANNEL \in {"slack", "both"} /\ ALERT_SLACK_WEBHOOK # ""

----------------------------------------------------------------------------
(* The replies table *)

Row(review_id, status, template_key, lang, stars, period, message, now) ==
    [ review_id |-> review_id, status |-> status, template_key |-> template_key,
      lang |-> lang, stars |-> stars, period |-> period,
      message_hash |-> sha256(message), created_at |-> now ]

\* already_replied asking for a posted reply only
already_replied_OnlyReplied(review_id) ==
    \E r \in replies : r.review_id = review_id /\ r.status = "replied"

\* already_replied finding no row at all
already_replied_Never(review_id) == FALSE

\* already_replied: SELECT 1 FROM replies WHERE review_id = ?
already_replied(review_id) == \E r \in replies : r.review_id = review_id

\* ReplaceInto as a plain INSERT into a table without the primary key
ReplaceInto_Insert(table, row) == table \cup {row}

\* REPLACE INTO replies: the rows that conflict on the primary key are
\* deleted, then the new row is inserted
ReplaceInto(table, row) ==
    { r \in table : r.review_id # row.review_id } \cup {row}

----------------------------------------------------------------------------
(* Responses *)

Response(code, status, reason, detail) ==
    [ code |-> code, status |-> status, reason |-> reason, detail |-> detail ]

NoResponse == Response(0, "", "", "")

\* SkipResponse without the reason field
SkipResponse_NoReason(reason) == Response(200, "skip", "", "")

\* main.py:145, 149, 177: {"status": "skip", "reason": reason}
SkipResponse(reason) == Response(200, "skip", reason, "")

\* what the framework answers when the handler lets an exception escape
InternalServerError == Response(500, "", "", "Internal Server Error")

\* raise HTTPException(status_code=..., detail=...)
HTTPException(code, detail) == Response(code, "", "", detail)

\* str(e) of an HTTPException
HTTPExceptionStr(code, detail) == ToString(code) \o ": " \o detail

----------------------------------------------------------------------------
(* Handlers *)

Idle ==
    [ pc |-> "idle", suspended |-> FALSE,
      review_id |-> "", stars |-> 0, company_response_exists |-> FALSE,
      lang |-> "", period |-> "", message |-> "",
      had_record |-> FALSE, found |-> {}, after_finished |-> FALSE,
      upstream |-> 0, body |-> "", error |-> "",
      written |-> <<>>, post_calls |-> 0, approvals |-> 0, alerts |-> <<>>,
      alert_failures |-> 0,
      response |-> NoResponse ]

NoProbe ==
    [ created_at |-> 0, now |-> 0, age_days |-> 0, period |-> "",
      classified |-> FALSE ]

\* No other coroutine is in the middle of a stretch that does not suspend.
CanRun(h) ==
    \A g \in Handlers \ {h} :
        handler[g].pc \in {"idle", "done"} \/ handler[g].suspended

Init ==
    /\ APP_APPROVAL_MODE \in BOOLEAN
    /\ \E c \in { <<"none", "">>, <<"slack", "hook">> } :
           APP_APPROVAL_CHANNEL = c[1] /\ APP_APPROVAL_WEBHOOK = c[2]
    /\ TP_BUSINESS_TOKEN \in {"", "token"}
    /\ \E c \in { <<"none", "">>, <<"slack", "hook">> } :
           ALERT_CHANNEL = c[1] /\ ALERT_SLACK_WEBHOOK = c[2]
    /\ replies = {}
    /\ utcnow = 0
    /\ handler = [h \in Handlers |-> Idle]
    /\ finished = {}
    /\ deliveries = 0
    /\ probe = NoProbe
    /\ posted = [r \in ReviewIds |-> 0]

----------------------------------------------------------------------------
(* save_log and the bookkeeping of one stretch of a handler *)

LogArgs(review_id, status, template_key, lang, stars, period, message) ==
    [ review_id |-> review_id, status |-> status, template_key |-> template_key,
      lang |-> lang, stars |-> stars, period |-> period, message |-> message ]

RowOf(a, now) ==
    Row(a.review_id, a.status, a.template_key, a.lang, a.stars, a.period,
        a.message, now)

\* save_log: one REPLACE INTO and a commit
save_log(table, a, now) == ReplaceInto(table, RowOf(a, now))

Awaiting(st, pc, suspends) == [st EXCEPT !.pc = pc, !.suspended = suspends]

Returned(st, resp) ==
    [st EXCEPT !.pc = "done", !.suspended = FALSE, !.response = resp]

\* alert_error without the try/except of its transports: a failed post
\* raises into the handler
alert_error_raises_OnFailure(ok) == ~ok

\* main.py:31-55, alert_error(title, detail): whether the call raises into
\* its caller when a transport fails (ok is FALSE; with no channel
\* configured nothing is sent and ok is TRUE); both transports swallow
\* their exceptions
alert_error_raises(ok) == FALSE

\* one call of alert_error(title, detail)
Alerted(st, title, detail) ==
    [st EXCEPT !.alerts = Append(@, [title |-> title, detail |-> detail])]

\* main.py:33-37: the chat webhook took the alert (ok) or its post raised
\* and send_slack_alert passed over the exception
Transported(st, ok) ==
    [st EXCEPT !.alert_failures = IF ok THEN @ ELSE @ + 1]

\* The stretch of handler h ends in state st after the calls of save_log
\* listed in logs (none or one).
Commit(h, st, logs) ==
    /\ handler' = [handler EXCEPT ![h] =
          [st EXCEPT !.written =
               @ \o [i \in 1 .. Len(logs) |-> RowOf(logs[i], utcnow)]]]
    /\ replies' = IF logs = <<>> THEN replies
                  ELSE save_log(replies, logs[1], utcnow)
    /\ utcnow' = utcnow + Len(logs)
    /\ finished' = IF st.pc = "done" THEN finished \cup {st.review_id}
                   ELSE finished
    /\ posted' = IF st.post_calls = handler[h].post_calls + 1
                 THEN [posted EXCEPT ![st.review_id] = @ + 1]
                 ELSE posted
    /\ UNCHANGED <<config, probe>>

----------------------------------------------------------------------------
(* handle_trustpilot_event *)

\* the company check placed after the template lookup: it skips only the
\* events whose stars have a template
company_replied_AfterLookup(ev) ==
    /\ ev.company_response_exists
    /\ \E k \in DOMAIN TEMPLATES, p \in {"Fresco", "Vecchio"},
          l \in {"IT", "EN", "FR"} : k = TemplateKey(ev.stars, p, l)

\* main.py:147: if ev.company_response_exists, ahead of everything the
\* event is classified by
company_replied(ev) == ev.company_response_exists

\* main.py:143-171, from the arrival of the event to the first await
Deliver(h, ev, now) ==
    /\ CanRun(h)
    /\ deliveries' = deliveries + 1
    /\ LET st0 == [Idle EXCEPT
                     !.review_id = ev.review_id,
                     !.stars = ev.stars,
                     !.company_response_exists = ev.company_response_exists,
                     !.had_record = (\E r \in replies : r.review_id = ev.review_id),
                     !.found = { r \in replies : r.review_id = ev.review_id },
                     !.after_finished = ev.review_id \in finished]
       IN
       IF already_replied(ev.review_id)
       THEN Commit(h, Returned(st0, SkipResponse("already_replied")), <<>>)
       ELSE IF company_replied(ev)
       THEN Commit(h, Returned(st0, SkipResponse("company_already_replied")),
                   << LogArgs(ev.review_id, "skip_company_already_replied",
                              "", "", ev.stars, "", "") >>)
       ELSE
         LET lang == choose_lang(ev.language)
             age == local_age_days(ev.created_at, now)
             period == period_from_age(age)
             tpl == template_for(ev.stars, period, lang)
             st1 == [st0 EXCEPT !.lang = lang, !.period = period]
         IN
         IF NotTpl(tpl)
         THEN Commit(h, Awaiting(st1, "alert_missing", SlackAlertConfigured),
                     << LogArgs(ev.review_id, "skip_template_missing", "",
                                lang, ev.stars, period, "") >>)
         ELSE
           LET name == NameOf(ev.consumer_name)
               message == ReplaceName(tpl.v, name)
               st2 == [st1 EXCEPT !.message = message]
           IN
           IF ApprovalRoute(ev.stars, period)
           THEN Commit(h, Awaiting(st2, "send_approval", ApprovalConfigured), <<>>)
           ELSE Commit(h, Awaiting(st2, "post_reply", TP_BUSINESS_TOKEN # ""), <<>>)

\* main.py:158-159: the alert of a template miss returns, then the 400
AlertMissingDone(h, ok) ==
    /\ CanRun(h)
    /\ handler[h].pc = "alert_missing"
    /\ ~SlackAlertConfigured => ok
    /\ LET st == handler[h]
           key == TemplateKey(st.stars, st.period, st.lang)
           alerted == Transported(Alerted(st, "Missing template", "key=" \o key), ok)
       IN Commit(h, Returned(alerted,
                             IF alert_error_raises(ok) THEN InternalServerError
                             ELSE HTTPException(400, "No template for " \o key)),
                 <<>>)
    /\ UNCHANGED deliveries

\* main.py:126-130 and 166-168: send_approval returns (it posted, or the
\* channel is not configured), then the queued_for_approval row
ApprovalReturns(h) ==
    /\ CanRun(h)
    /\ handler[h].pc = "send_approval"
    /\ LET st == handler[h]
           sent == [st EXCEPT !.approvals =
                       IF ApprovalConfigured THEN @ + 1 ELSE @]
       IN Commit(h, Returned(sent, Response(200, "queued_for_approval", "", "")),
                 << LogArgs(st.review_id, "queued_for_approval",
                            TemplateKey(st.stars, st.period, st.lang),
                            st.lang, st.stars, st.period, st.message) >>)
    /\ UNCHANGED deliveries

\* main.py:130 and 166: client.post raises inside send_approval; nothing
\* catches it, the exception leaves the handler
ApprovalRaises(h) ==
    /\ CanRun(h)
    /\ handler[h].pc = "send_approval"
    /\ ApprovalConfigured
    /\ LET st == handler[h]
           sent == [st EXCEPT !.approvals = @ + 1, !.error = "ConnectTimeout"]
       IN Commit(h, Returned(sent, InternalServerError), <<>>)
    /\ UNCHANGED deliveries

\* UpstreamOutcome without the branch of line 175: a 409 is an error
UpstreamOutcome_No409(status) ==
    IF status \in {200, 201} THEN "replied"
    ELSE "error_" \o ToString(status)

\* main.py:172-179: the status logged for an upstream status code
UpstreamOutcome(status) ==
    IF status \in {200, 201} THEN "replied"
    ELSE IF status = 409 THEN "skip_conflict"
    ELSE "error_" \o ToString(status)

\* ExceptionLog with the status of the else branch
ExceptionLog_Status(st) ==
    LogArgs(st.review_id, "error_" \o ToString(st.upstream),
            TemplateKey(st.stars, st.period, st.lang),
            st.lang, st.stars, st.period, st.message)

\* main.py:183: the save_log of the except clause
ExceptionLog(st) ==
    LogArgs(st.review_id, "error_exception",
            TemplateKey(st.stars, st.period, st.lang),
            st.lang, st.stars, st.period, st.message)

\* main.py:171-180: post_reply returns the upstream response
PostReplyReturns(h, status, body) ==
    /\ CanRun(h)
    /\ handler[h].pc = "post_reply"
    /\ TP_BUSINESS_TOKEN # ""
    /\ LET st == [handler[h] EXCEPT !.post_calls = @ + 1,
                                    !.upstream = status, !.body = body]
           key == TemplateKey(st.stars, st.period, st.lang)
           outcome == UpstreamOutcome(status)
           log == << LogArgs(st.review_id, outcome, key, st.lang, st.stars,
                             st.period, st.message) >>
       IN
       IF outcome = "replied"
       THEN Commit(h, Returned(st, Response(200, "replied", "", "")), log)
       ELSE IF outcome = "skip_conflict"
       THEN Commit(h, Returned(st, SkipResponse("conflict")), log)
       ELSE Commit(h, Awaiting(st, "alert_status", SlackAlertConfigured), log)
    /\ UNCHANGED deliveries

\* main.py:113-124 and 182-184: post_reply raises (no credential, or the
\* transport fails), the except clause logs error_exception
PostReplyRaises(h, e) ==
    /\ CanRun(h)
    /\ handler[h].pc = "post_reply"
    /\ IF TP_BUSINESS_TOKEN = ""
       THEN e = "TP_BUSINESS_TOKEN missing. Set it in environment."
       ELSE e \in TransportErrors
    /\ LET st == [handler[h] EXCEPT !.post_calls = @ + 1, !.error = e]
       IN Commit(h, Awaiting(st, "alert_exception", SlackAlertConfigured),
                 << ExceptionLog(st) >>)
    /\ UNCHANGED deliveries

\* main.py:180-184: the alert of an upstream error status returns, then
\* raise HTTPException(status_code=resp.status_code) inside the try block:
\* the clause `except Exception` of line 182 catches it (HTTPException is
\* an Exception) and logs error_exception
AlertStatusDone(h, ok) ==
    /\ CanRun(h)
    /\ handler[h].pc = "alert_status"
    /\ ~SlackAlertConfigured => ok
    /\ LET st == handler[h]
           alerted == Transported(
                          Alerted(st, "Trustpilot reply error",
                                  "review_id=" \o st.review_id \o " status="
                                    \o ToString(st.upstream) \o " body=" \o st.body),
                          ok)
           raised == [alerted EXCEPT
                        !.error = IF alert_error_raises(ok) THEN "ConnectTimeout"
                                  ELSE HTTPExceptionStr(st.upstream, st.body)]
       IN Commit(h, Awaiting(raised, "alert_exception", SlackAlertConfigured),
                 << ExceptionLog(st) >>)
    /\ UNCHANGED deliveries

\* main.py:184-185: the alert of the except clause returns, then the 500
AlertExceptionDone(h, ok) ==
    /\ CanRun(h)
    /\ handler[h].pc = "alert_exception"
    /\ ~SlackAlertConfigured => ok
    /\ LET st == handler[h]
           alerted == Transported(
                          Alerted(st, "Exception while replying",
                                  "review_id=" \o st.review_id \o " error=" \o st.error),
                          ok)
       IN Commit(h, Returned(alerted,
                             IF alert_error_raises(ok) THEN InternalServerError
                             ELSE HTTPException(500, st.error)),
                 <<>>)
    /\ UNCHANGED deliveries

----------------------------------------------------------------------------
(* Specifications *)

Quiet == \A h \in Handlers : handler[h].pc \in {"idle", "done"}

\* Deliveries that do not overlap: the next event arrives when the
\* previous request has returned.
DeliverNext ==
    \E ev \in ReviewEvent, now \in NowValues :
        /\ deliveries < MaxDeliveries
        /\ Quiet
        /\ Deliver(1, ev, now)

\* Requests in flight at once, each handler taking one event; the k-th
\* request to arrive is handled by handler k.
DeliverConcurrent ==
    \E h \in Handlers, ev \in ConcEvents, now \in NowValues :
        /\ handler[h].pc = "idle"
        /\ \A g \in 1 .. h - 1 : handler[g].pc # "idle"
        /\ Deliver(h, ev, now)

AlertMissingReturns == \E h \in Handlers, ok \in BOOLEAN : AlertMissingDone(h, ok)
ApprovalReturn == \E h \in Handlers : ApprovalReturns(h)
ApprovalFail == \E h \in Handlers : ApprovalRaises(h)
PostReturn ==
    \E h \in Handlers, s \in UpstreamStatuses, b \in UpstreamBodies :
        PostReplyReturns(h, s, b)
PostFail ==
    \E h \in Handlers,
       e \in TransportErrors \cup {"TP_BUSINESS_TOKEN missing. Set it in environment."} :
        PostReplyRaises(h, e)
AlertStatusReturns == \E h \in Handlers, ok \in BOOLEAN : AlertStatusDone(h, ok)
AlertExceptionReturns == \E h \in Handlers, ok \in BOOLEAN : AlertExceptionDone(h, ok)

Steps ==
    \/ AlertMissingReturns
    \/ ApprovalReturn
    \/ ApprovalFail
    \/ PostReturn
    \/ PostFail
    \/ AlertStatusReturns
    \/ AlertExceptionReturns

Next == DeliverNext \/ Steps

Spec == Init /\ [][Next]_vars

\* In the runs with requests in flight at once the alert webhook takes
\* every alert (its failures are followed in Spec).
ConcAlertMissingReturns == \E h \in Handlers : AlertMissingDone(h, TRUE)
ConcAlertStatusReturns == \E h \in Handlers : AlertStatusDone(h, TRUE)
ConcAlertExceptionReturns == \E h \in Handlers : AlertExceptionDone(h, TRUE)

ConcNext ==
    \/ DeliverConcurrent
    \/ ConcAlertMissingReturns
    \/ ApprovalReturn
    \/ ApprovalFail
    \/ PostReturn
    \/ PostFail
    \/ ConcAlertStatusReturns
    \/ ConcAlertExceptionReturns

\* The credential and both channels are configured, so that every await
\* of an outbound call suspends.
ConcInit ==
    /\ Init
    /\ APP_APPROVAL_CHANNEL = "slack"
    /\ TP_BUSINESS_TOKEN # ""
    /\ ALERT_CHANNEL = "slack"

ConcSpec == ConcInit /\ [][ConcNext]_vars

\* The recency classifier on its own, main.py:152-153: one pair of
\* instants, then the age and the period the code computes for it.
ProbeCreatedAt == 0 .. 170
ProbeNow == {144, 300}

AgeInit ==
    /\ APP_APPROVAL_MODE = TRUE
    /\ APP_APPROVAL_CHANNEL = "none" /\ APP_APPROVAL_WEBHOOK = ""
    /\ TP_BUSINESS_TOKEN = "token"
    /\ ALERT_CHANNEL = "none" /\ ALERT_SLACK_WEBHOOK = ""
    /\ replies = {}
    /\ utcnow = 0
    /\ handler = [h \in Handlers |-> Idle]
    /\ finished = {}
    /\ deliveries = 0
    /\ posted = [r \in ReviewIds |-> 0]
    /\ \E c \in ProbeCreatedAt, n \in ProbeNow :
           probe = [NoProbe EXCEPT !.created_at = c, !.now = n]

Classify ==
    /\ ~probe.classified
    /\ LET age == local_age_days(probe.created_at, probe.now) IN
       probe' = [probe EXCEPT !.age_days = age,
                              !.period = period_from_age(age),
                              !.classified = TRUE]
    /\ UNCHANGED <<config, replies, utcnow, handler, finished, deliveries,
                   posted>>

AgeSpec == AgeInit /\ [][Classify]_vars

----------------------------------------------------------------------------
(* Properties *)

Returned200(status, reason) == Response(200, status, reason, "")

IsDone(h) == handler[h].pc = "done"

\* the handling by h of an event that had no Outcome Record at step 1
Fresh(h) == handler[h].pc # "idle" /\ ~handler[h].had_record

RowsOf(review_id) == { r \in replies : r.review_id = review_id }

KeyOf(st) == TemplateKey(st.stars, st.period, st.lang)

\* the event reached routing: no record, no company response, template found
ReachedRouting(h) ==
    /\ Fresh(h)
    /\ ~handler[h].company_response_exists
    /\ KeyOf(handler[h]) \in DOMAIN TEMPLATES
    /\ TEMPLATES[KeyOf(handler[h])] # <<>>

\* the condition of the approval route as the specification states it
SensitiveAndFresh(h) ==
    APP_APPROVAL_MODE /\ handler[h].stars <= 2 /\ handler[h].period = "Fresco"

\* C1: a delivery that starts after an earlier delivery of the same
\* review_id has returned gets the already-replied skip, whatever the
\* earlier delivery's terminal state and outbound outcomes were.
C1_RedeliverySkipped ==
    \A h \in Handlers :
        (IsDone(h) /\ handler[h].after_finished)
            => handler[h].response = Returned200("skip", "already_replied")

\* C2: a handling that found no record at step 1 writes the Outcome Log
\* exactly once before it returns: never twice, and once when it has
\* returned.
C2_ExactlyOneWrite ==
    \A h \in Handlers :
        Fresh(h) =>
            /\ Len(handler[h].written) <= 1
            /\ IsDone(h) => Len(handler[h].written) = 1

\* C3: an event that reached routing ends queued_for_approval with no
\* reply-post attempt if and only if approval mode is on, stars <= 2 and the
\* period is Fresco; otherwise a reply-post attempt is made.
C3_ApprovalRouting ==
    \A h \in Handlers :
        (IsDone(h) /\ ReachedRouting(h)) =>
            /\ SensitiveAndFresh(h) <=>
                   ( /\ handler[h].response.status = "queued_for_approval"
                     /\ handler[h].post_calls = 0 )
            /\ ~SensitiveAndFresh(h) => handler[h].post_calls = 1

\* C4: when the reply post returned a status s other than 200, 201 and 409,
\* the record of the review_id when the handler returns has status error_<s>.
C4_UpstreamErrorStatus ==
    \A h \in Handlers :
        (IsDone(h) /\ handler[h].post_calls = 1
                   /\ handler[h].upstream \notin {0, 200, 201, 409}) =>
            /\ RowsOf(handler[h].review_id) # {}
            /\ \A r \in RowsOf(handler[h].review_id) :
                   r.status = "error_" \o ToString(handler[h].upstream)

\* C5: on the approval route the handler writes the queued_for_approval
\* record with the template key and the fingerprint of the message and
\* returns queued_for_approval, whether the approval notification succeeds,
\* raises or is not configured.
C5_ApprovalBestEffort ==
    \A h \in Handlers :
        (IsDone(h) /\ ReachedRouting(h) /\ SensitiveAndFresh(h)) =>
            /\ handler[h].response = Returned200("queued_for_approval", "")
            /\ Len(handler[h].written) = 1
            /\ handler[h].written[1].status = "queued_for_approval"
            /\ handler[h].written[1].template_key = KeyOf(handler[h])
            /\ handler[h].written[1].message_hash = sha256(handler[h].message)

\* C6: an event with no record and no company response whose key is absent
\* from the Template Table ends skip_template_missing: one record with the
\* resolved lang and period and an empty template_key, one alert, no
\* reply-post attempt, no approval notification, and a 400 that names the
\* key.
C6_TemplateMiss ==
    \A h \in Handlers :
        (IsDone(h) /\ Fresh(h) /\ ~handler[h].company_response_exists
                   /\ KeyOf(handler[h]) \notin DOMAIN TEMPLATES) =>
            LET st == handler[h] IN
            /\ st.response = HTTPException(400, "No template for " \o KeyOf(st))
            /\ Len(st.written) = 1
            /\ st.written[1].status = "skip_template_missing"
            /\ st.written[1].template_key = ""
            /\ st.written[1].lang = st.lang /\ st.lang \in {"IT", "EN", "FR"}
            /\ st.written[1].period = st.period
            /\ st.period \in {"Fresco", "Vecchio"}
            /\ st.written[1].stars = st.stars
            /\ RowsOf(st.review_id) = {st.written[1]}
            /\ Len(st.alerts) = 1
            /\ st.alerts[1] = [title |-> "Missing template",
                               detail |-> "key=" \o KeyOf(st)]
            /\ st.post_calls = 0
            /\ st.approvals = 0

C6_Witness ==
    \E h \in Handlers :
        /\ IsDone(h) /\ Fresh(h)
        /\ KeyOf(handler[h]) \notin DOMAIN TEMPLATES
        /\ handler[h].response.code = 400
        /\ Len(handler[h].alerts) = 1
        /\ \E r \in replies : r.status = "skip_template_missing"

\* C7: an event with no record and no company response whose stars value is
\* outside the Allowed-Stars Set (by default all of 1..5; main.py has no
\* such setting) ends skip_stars_filtered: one record with the stars and
\* empty lang, period and template_key, and no alert, approval notification
\* or reply-post attempt.
C7_StarFilter ==
    \A h \in Handlers :
        (IsDone(h) /\ Fresh(h) /\ ~handler[h].company_response_exists
                   /\ handler[h].stars \notin 1 .. 5) =>
            LET st == handler[h] IN
            /\ Len(st.written) = 1
            /\ st.written[1].status = "skip_stars_filtered"
            /\ st.written[1].stars = st.stars
            /\ st.written[1].lang = "" /\ st.written[1].period = ""
            /\ st.written[1].template_key = ""
            /\ st.alerts = <<>> /\ st.approvals = 0 /\ st.post_calls = 0

\* C8: when the reply post returned 409 the record has status skip_conflict,
\* no alert is triggered and the caller gets the skip response with reason
\* conflict.
C8_ConflictBenign ==
    \A h \in Handlers :
        (IsDone(h) /\ handler[h].post_calls = 1 /\ handler[h].upstream = 409) =>
            LET st == handler[h] IN
            /\ Len(st.written) = 1
            /\ st.written[1].status = "skip_conflict"
            /\ RowsOf(st.review_id) = {st.written[1]}
            /\ st.alerts = <<>>
            /\ st.response = Returned200("skip", "conflict")

C8_Witness ==
    \E h \in Handlers :
        /\ IsDone(h) /\ handler[h].upstream = 409
        /\ handler[h].response.reason = "conflict"
        /\ \E r \in replies : r.status = "skip_conflict"

\* the reply-post attempt of h raised: no upstream status came back
PostRaised(h) ==
    /\ handler[h].post_calls = 1
    /\ handler[h].upstream = 0
    /\ handler[h].pc \in {"alert_exception", "done"}

\* C9: when the reply-post attempt raised (transport failure or missing
\* credential) the record has status error_exception, one alert carries the
\* description of the exception and the caller gets a 500.
C9_TransportException ==
    \A h \in Handlers :
        PostRaised(h) =>
            LET st == handler[h] IN
            /\ st.error # ""
            /\ TP_BUSINESS_TOKEN = "" =>
                   st.error = "TP_BUSINESS_TOKEN missing. Set it in environment."
            /\ Len(st.written) = 1
            /\ st.written[1].status = "error_exception"
            /\ RowsOf(st.review_id) = {st.written[1]}
            /\ IsDone(h) =>
                   /\ st.alerts = << [title |-> "Exception while replying",
                                      detail |-> "review_id=" \o st.review_id
                                                   \o " error=" \o st.error] >>
                   /\ st.response = HTTPException(500, st.error)

C9_Witness ==
    \E h \in Handlers :
        /\ IsDone(h) /\ PostRaised(h)
        /\ handler[h].error = "ConnectTimeout"
        /\ handler[h].response.code = 500
        /\ \E r \in replies : r.status = "error_exception"

\* every row some handler has written for the review id
WrittenFor(review_id) ==
    { r \in UNION { { handler[h].written[i] : i \in 1 .. Len(handler[h].written) } :
                    h \in Handlers } : r.review_id = review_id }

\* of these, the row of the last write
LastWrittenFor(review_id) ==
    { r \in WrittenFor(review_id) :
        \A q \in WrittenFor(review_id) : q.created_at <= r.created_at }

\* C10: with handlers in flight at once for one review_id, the Outcome Log
\* holds at most one record for it in every state, and that record is the
\* whole row of the last write.
C10_OneRecordPerKey ==
    \A review_id \in ReviewIds :
        /\ Cardinality(RowsOf(review_id)) <= 1
        /\ RowsOf(review_id) = LastWrittenFor(review_id)

\* two handlers passed the existence check for the same review_id before
\* either wrote, both have written and returned
C10_Witness ==
    \E g, h \in Handlers :
        /\ g # h
        /\ IsDone(g) /\ IsDone(h)
        /\ handler[g].review_id = handler[h].review_id
        /\ ~handler[g].had_record /\ ~handler[h].had_record
        /\ ~handler[g].company_response_exists
        /\ ~handler[h].company_response_exists
        /\ handler[g].written # <<>> /\ handler[h].written # <<>>
        /\ handler[g].written[1].status # handler[h].written[1].status
        /\ Cardinality(RowsOf(handler[h].review_id)) = 1

\* the reply post of h came back with a status that is neither a success
\* nor a conflict
UpstreamError(h) ==
    /\ handler[h].post_calls = 1
    /\ handler[h].upstream \notin {0, 200, 201, 409}

\* C11: when the reply post returned a status s other than 200, 201 and 409,
\* the error response to the caller carries the status code s and the
\* upstream body as detail.
C11_UpstreamStatusToCaller ==
    \A h \in Handlers :
        (IsDone(h) /\ UpstreamError(h)) =>
            handler[h].response = HTTPException(handler[h].upstream, handler[h].body)

\* the handling by h ended in a template miss: no usable template for the key
TemplateMissed(h) ==
    /\ Fresh(h)
    /\ ~handler[h].company_response_exists
    /\ \/ KeyOf(handler[h]) \notin DOMAIN TEMPLATES
       \/ TEMPLATES[KeyOf(handler[h])] = <<>>

\* C12: on every path that triggers an alert (template miss, upstream error
\* status, exception of the reply post) the records written and the response
\* are what the path alone determines, whether the alert transport took the
\* alert or failed; alert_error never raises into the handler.
C12_AlertNeverAffectsOutcome ==
    \A h \in Handlers :
        IsDone(h) =>
            LET st == handler[h] IN
            /\ TemplateMissed(h) =>
                   /\ st.response = HTTPException(400, "No template for " \o KeyOf(st))
                   /\ Len(st.written) = 1
                   /\ st.written[1].status = "skip_template_missing"
            /\ PostRaised(h) =>
                   /\ st.error \in TransportErrors
                        \cup {"TP_BUSINESS_TOKEN missing. Set it in environment."}
                   /\ st.response = HTTPException(500, st.error)
                   /\ Len(st.written) = 1
                   /\ st.written[1].status = "error_exception"
            /\ UpstreamError(h) =>
                   /\ st.response =
                          HTTPException(500, HTTPExceptionStr(st.upstream, st.body))
                   /\ Len(st.written) = 2
                   /\ st.written[2].status = "error_exception"

\* a handler returned its 400 although the transport of its alert failed
C12_Witness ==
    \E h \in Handlers :
        /\ IsDone(h) /\ TemplateMissed(h)
        /\ handler[h].alert_failures = 1
        /\ Len(handler[h].alerts) = 1
        /\ handler[h].response.code = 400

\* C13: when a record exists for the review_id as the handler starts, the
\* handler returns at once: it writes nothing and the record it found is
\* still the record of the review_id, it attempts no reply post, sends no
\* approval notification and triggers no alert, whatever the event carries.
C13_ReplayIsNoOp ==
    \A h \in Handlers :
        (handler[h].pc # "idle" /\ handler[h].had_record) =>
            LET st == handler[h] IN
            /\ IsDone(h)
            /\ st.response = Returned200("skip", "already_replied")
            /\ st.written = <<>>
            /\ st.found # {}
            /\ RowsOf(st.review_id) = st.found
            /\ st.post_calls = 0 /\ st.approvals = 0 /\ st.alerts = <<>>

\* a replay that says the company has replied and has no template, of a
\* review whose record says replied
C13_Witness ==
    \E h \in Handlers :
        /\ IsDone(h) /\ handler[h].had_record
        /\ handler[h].company_response_exists
        /\ handler[h].stars = 6
        /\ \E r \in RowsOf(handler[h].review_id) :
               r.status = "replied" /\ r.stars = 3

\* the state tags of the orchestrator that are not errors
StateTags ==
    { "skip_already_replied", "skip_company_already_replied",
      "skip_stars_filtered", "skip_template_missing", "queued_for_approval",
      "replied", "skip_conflict" }

\* C14 as stated: every non-error response has a status field that is one
\* of the state tags, and every skip response carries a reason field.
C14_StatusIsStateTag ==
    \A h \in Handlers :
        (IsDone(h) /\ handler[h].response.code = 200) =>
            /\ handler[h].response.status \in StateTags
            /\ handler[h].response.status \notin {"replied", "queued_for_approval"}
                   => handler[h].response.reason # ""

\* C14, amended: every non-error response has the status replied or
\* queued_for_approval, which are state tags, or the status skip with a
\* reason field such that skip_<reason> is a state tag.
C14_StatusAndReason ==
    \A h \in Handlers :
        (IsDone(h) /\ handler[h].response.code = 200) =>
            LET resp == handler[h].response IN
            \/ resp.status \in {"replied", "queued_for_approval"} /\ resp.reason = ""
            \/ /\ resp.status = "skip"
               /\ resp.reason # ""
               /\ ("skip_" \o resp.reason) \in StateTags

C14_Witness ==
    \E h \in Handlers :
        /\ IsDone(h) /\ handler[h].upstream = 409
        /\ handler[h].response = Response(200, "skip", "conflict", "")
        /\ \E r \in RowsOf(handler[h].review_id) : r.status = "skip_conflict"

\* the rows the handlers at hand have written
WrittenRows ==
    UNION { { handler[h].written[i] : i \in 1 .. Len(handler[h].written) } :
            h \in Handlers }

\* C15: a record written for an outcome without a message
\* (skip_company_already_replied, skip_stars_filtered, skip_template_missing)
\* has an empty message_hash; message_hash is non-empty only on records of a
\* dispatched or queued message.
C15_EmptyFingerprint ==
    \A r \in WrittenRows \cup replies :
        /\ r.status \in { "skip_company_already_replied", "skip_stars_filtered",
                          "skip_template_missing" } => r.message_hash = ""
        /\ r.message_hash # "" =>
               r.status \notin { "skip_company_already_replied",
                                 "skip_stars_filtered", "skip_template_missing" }

\* the whole days in e hours, none when e is negative
WholeDays(e) ==
    IF e < 0 THEN 0 ELSE CHOOSE d \in 0 .. 20 : d * 24 <= e /\ e < (d + 1) * 24

\* C16: the period is Fresco when the elapsed whole days between now and
\* created_at are at most 5 and Vecchio when they are 6 or more; exactly 5
\* days is Fresco, exactly 6 days is Vecchio, and a timestamp in the future
\* has its age clamped to 0 and is Fresco.
C16_RecencyBoundary ==
    probe.classified =>
        LET elapsed == probe.now - probe.created_at IN
        /\ probe.period = "Fresco" <=> WholeDays(elapsed) <= 5
        /\ probe.period = "Vecchio" <=> WholeDays(elapsed) >= 6
        /\ elapsed = 5 * 24 => probe.period = "Fresco"
        /\ elapsed = 6 * 24 => probe.period = "Vecchio"
        /\ elapsed < 0 => probe.age_days = 0 /\ probe.period = "Fresco"

\* exactly 6 days, with the change of the zone's offset in between
C16_Witness ==
    /\ probe.classified
    /\ probe.now - probe.created_at = 144
    /\ UtcOffset(probe.created_at) # UtcOffset(probe.now)
    /\ probe.period = "Vecchio"

\* C17: an event with no record and company_response_exists true ends as
\* skip_company_already_replied: one record with the event's stars and empty
\* lang, period and template_key, no alert, no approval notification and no
\* reply post, whatever its stars, age and language would have selected.
C17_CompanyPrecedence ==
    \A h \in Handlers :
        (Fresh(h) /\ handler[h].company_response_exists) =>
            LET st == handler[h] IN
            /\ IsDone(h)
            /\ st.response = Returned200("skip", "company_already_replied")
            /\ Len(st.written) = 1
            /\ st.written[1].status = "skip_company_already_replied"
            /\ st.written[1].review_id = st.review_id
            /\ st.written[1].stars = st.stars
            /\ st.written[1].lang = "" /\ st.written[1].period = ""
            /\ st.written[1].template_key = ""
            /\ RowsOf(st.review_id) = {st.written[1]}
            /\ st.alerts = <<>> /\ st.approvals = 0 /\ st.post_calls = 0

\* the company has replied to a review whose stars have no template
C17_Witness ==
    \E h \in Handlers :
        /\ IsDone(h) /\ Fresh(h) /\ handler[h].company_response_exists
        /\ \A k \in DOMAIN TEMPLATES, p \in {"Fresco", "Vecchio"},
              l \in {"IT", "EN", "FR"} : k # TemplateKey(handler[h].stars, p, l)
        /\ handler[h].written # <<>>

\* C18: over the deliveries of one review_id that do not overlap, post_reply
\* is called at most once in total, and a delivery calls it at most once,
\* whatever the platform answers.
C18_NoInternalRetry ==
    /\ \A r \in ReviewIds : posted[r] <= 1
    /\ \A h \in Handlers : handler[h].post_calls <= 1

\* a review whose post failed with an upstream error status or in transport
\* is delivered again, and the second delivery has returned without a post
C18_Witness ==
    \E h \in Handlers :
        /\ IsDone(h) /\ handler[h].had_record /\ handler[h].after_finished
        /\ posted[handler[h].review_id] = 1
        /\ handler[h].post_calls = 0
        /\ \E r \in handler[h].found : r.status = "error_exception"

\* C19: the handling of one event triggers alert_error at most once: once
\* on a template miss, on an upstream error status and on a transport
\* exception, and never on any other path.
C19_AtMostOneAlert ==
    \A h \in Handlers :
        LET st == handler[h] IN
        /\ Len(st.alerts) <= 1
        /\ IsDone(h) =>
              ( Len(st.alerts) = 1 <=>
                   \/ TemplateMissed(h)
                   \/ UpstreamError(h)
                   \/ st.error # "" /\ st.post_calls = 1 )

\* the rows with status replied that handler h has written
RepliedBy(h) ==
    { handler[h].written[i] : i \in 1 .. Len(handler[h].written) }
        \cap { r \in WrittenRows : r.status = "replied" }

\* C20: once a record with status replied has been written for a review_id,
\* the record of that review_id has status replied for good, for every
\* interleaving of concurrent handlers of the review_id.
C20_RepliedStaysRecorded ==
    \A h \in Handlers : \A w \in RepliedBy(h) :
        \E r \in replies : r.review_id = w.review_id /\ r.status = "replied"

\* C20, amended: a handler that starts when the review_id has a record with
\* status replied writes nothing and leaves that record in place; a record
\* with status replied that is no longer in the table was replaced by the
\* later write of a concurrent handler that had passed the check of step 1
\* before any record existed.
C20_RepliedReplacedOnlyByConcurrent ==
    /\ \A h \in Handlers :
          (\E r \in handler[h].found : r.status = "replied") =>
              /\ handler[h].written = <<>>
              /\ handler[h].post_calls = 0
    /\ \A h \in Handlers : \A w \in RepliedBy(h) :
          \/ w \in replies
          \/ \E g \in Handlers \ {h} :
                /\ ~handler[g].had_record
                /\ \E i \in 1 .. Len(handler[g].written) :
                      /\ handler[g].written[i] \in replies
                      /\ handler[g].written[i].review_id = w.review_id
                      /\ handler[g].written[i].created_at > w.created_at

\* two handlers of one review_id passed step 1; the post of one was taken
\* and recorded as replied, the post of the other was answered with 409 and
\* its skip_conflict row took the place of the replied row
C20_Witness ==
    \E h \in Handlers, g \in Handlers :
        /\ h # g /\ IsDone(h) /\ IsDone(g)
        /\ \E w \in RepliedBy(h) :
              /\ w \notin replies
              /\ handler[g].review_id = w.review_id
        /\ handler[g].upstream = 409
        /\ \E r \in replies : /\ r.review_id = handler[g].review_id
                              /\ r.status = "skip_conflict"

====
